---- MODULE Spec2Model ----
(***************************************************************************)
(* Batch processing orchestrator of the video auto converter.              *)
(*                                                                         *)
(* Renderer side (App component): the queue `videos`, the run loop of      *)
(* handleProcessAll, the queue edits and the progress listener.            *)
(* Main side (ipcMain handlers): findPythonCommand and the encoder         *)
(* subprocess of 'process-video'.                                          *)
(*                                                                         *)
(* Strings that the code inspects with includes() are sequences of         *)
(* fragments; a string includes a needle when the needle is one of its     *)
(* fragments.  The empty string is the empty sequence.                     *)
(* A value rejected by the 'process-video' handler is what the catch       *)
(* clause of handleProcessAll receives (preload passes invoke through).    *)
(*                                                                         *)
(* Specifications:                                                         *)
(*   Spec          queue, run loop and 'process-video', resolution as one  *)
(*                 step                                                    *)
(*   SpecLive      Spec with every subprocess ending                       *)
(*   SpecSettings  Spec with the answer of the settings store              *)
(*   SpecResolver  findPythonCommand event by event                        *)
(*   SpecQueue     the queue editing handlers, captions included           *)
(*   SpecParser    the stdout handler over chunked text                    *)
(***************************************************************************)
EXTENDS Integers, Sequences, FiniteSets, TLC

\* ---------------------------------------------------------------- bounds
MaxIds == 2          \* jobs ever enqueued
MaxFiles == 2        \* files returned by one file-picker selection
MaxProgress == 1     \* progress events one encoder process emits
MaxCuts == 2         \* chunk boundaries in one stdout text (parser)

\* A path is a sequence of tokens: separators, dots and names.
\* "/in/a.mp4" and "/alt/a.mov": same name, other folder and extension
Paths == { <<"/", "in", "/", "a", ".", "mp4">>, <<"/", "alt", "/", "a", ".", "mov">> }
ProgressValues == {50}
ExitCodes == {0, 1}

\* ------------------------------------------------------------- strings
EmptyStr == << >>
Undefined == <<"<undefined>">>
PythonNotFound == "Python not found"
NotFoundMsg == <<PythonNotFound, ". Please install Python and make sure it's in your PATH.">>
ProcessingFailed == <<"Processing failed">>
SpawnErrorMsg == <<"spawn python ENOENT">>
StderrTexts == { EmptyStr, <<"bad codec">>, <<"ModuleNotFoundError: ", PythonNotFound, " in venv">> }

ExitMsg(code) == <<"Process exited with code ", ToString(code)>>

Includes(s, needle) == \E i \in 1..Len(s) : s[i] = needle

\* `a || b` of JavaScript on strings: a unless it is undefined or empty
OrElse(a, b) == IF a = Undefined \/ a = EmptyStr THEN b ELSE a

commands == <<"python", "python3", "py">>

\* the settings store as loadSettings finds it: no 'outputDir' saved yet,
\* 'defaultOutputDir' written by the main process at start
StoredOutputDir == Undefined
StoredDefaultDir == <<"home", "/", "TikTok_Output">>
FallbackDir == <<"TikTok_Output">>

VARIABLES
  videos,        \* App state: the queue, a sequence of VideoItem
  isProcessing,  \* App state
  pending,       \* handleProcessAll: the snapshot being iterated
  idx,           \* handleProcessAll: position in `pending` (0 = no run)
  abortAlert,    \* the 'Python Not Found' dialog was shown in this run
  nextId,        \* ids handed out so far
  outputDir,     \* App state: settings.outputDir
  runDir,        \* handleProcessAll: settings.outputDir as its closure captured it
  calls,         \* main: 'process-video' invocations in progress
  channel,       \* main -> renderer messages in flight (FIFO)
  bulkCaption,   \* App state: the bulk caption text area
  pText, pCuts, pPos, pEvents,  \* progress parser (SpecParser)
  rEnv,          \* what each candidate's version check does (SpecResolver)
  rIndex,        \* findPythonCommand: index
  rProbes,       \* findPythonCommand: version-check processes with an event to come
  rSettled,      \* findPythonCommand: how its promise settled
  rLaunched      \* candidates spawned so far, in spawn order

vars == <<videos, isProcessing, pending, idx, abortAlert, nextId, outputDir, runDir,
          calls, channel, bulkCaption,
          pText, pCuts, pPos, pEvents, rEnv, rIndex, rProbes, rSettled, rLaunched>>
mainVars == <<videos, isProcessing, pending, idx, abortAlert, nextId, outputDir, runDir,
              calls, channel>>
parserVars == <<pText, pCuts, pPos, pEvents>>
resolverVars == <<rEnv, rIndex, rProbes, rSettled, rLaunched>>
sideVars == <<bulkCaption, parserVars, resolverVars>>

\* ------------------------------------------------------------- helpers
Ids(s) == { s[i].id : i \in 1..Len(s) }

\* the filter of handleProcessAll without the retry of failed jobs
IsEligible_pendingOnly(v) == v.status = "pending"

\* the filter of handleProcessAll letting completed jobs through
IsEligible_notProcessing(v) == v.status # "processing"

\* videos.filter((v) => v.status === 'pending' || v.status === 'error')
IsEligible(v) == v.status = "pending" \/ v.status = "error"

Eligible(vs) == SelectSeq(vs, IsEligible)

\* prev.map((v) => v.id === id ? { ...v, status: 'processing', progress: 0 } : v)
MarkProcessing(vs, id) ==
  [ i \in 1..Len(vs) |-> IF vs[i].id = id
                          THEN [vs[i] EXCEPT !.status = "processing", !.progress = 0]
                          ELSE vs[i] ]

\* prev.map((v) => v.id === id ? { ...v, status: 'completed', progress: 100 } : v)
MarkCompleted(vs, id) ==
  [ i \in 1..Len(vs) |-> IF vs[i].id = id
                          THEN [vs[i] EXCEPT !.status = "completed", !.progress = 100]
                          ELSE vs[i] ]

\* prev.map((v) => v.id === id ? { ...v, status: 'error', errorMsg } : v)
MarkError(vs, id, msg) ==
  [ i \in 1..Len(vs) |-> IF vs[i].id = id
                          THEN [vs[i] EXCEPT !.status = "error", !.errorMsg = msg]
                          ELSE vs[i] ]

\* prev.map((v) => v.filepath === data.path ? { ...v, progress: data.progress } : v)
ApplyProgress(vs, path, value) ==
  [ i \in 1..Len(vs) |-> IF vs[i].filepath = path
                          THEN [vs[i] EXCEPT !.progress = value]
                          ELSE vs[i] ]

\* errorMsg.includes('Python not found')
IsRunAborting(msg) == Includes(msg, PythonNotFound)

\* the button without its isProcessing guard
ProcessButtonEnabled_noGuard == Len(videos) > 0

\* disabled={isProcessing || videos.length === 0}
ProcessButtonEnabled == ~isProcessing /\ Len(videos) > 0

\* filepath.split(/[\\/]/).pop() || ''
Separators == {"/", "\\"}
LastSegment(p) ==
  LET seps == { i \in 1..Len(p) : p[i] \in Separators }
  IN IF seps = {} THEN p
     ELSE SubSeq(p, (CHOOSE i \in seps : \A j \in seps : j <= i) + 1, Len(p))

\* filename.replace(/\.[^/.]+$/, ''): drop a last extension
StripExt(name) ==
  LET dots == { k \in 1..(Len(name) - 1) :
                  name[k] = "." /\ \A j \in (k + 1)..Len(name) : name[j] \notin {"/", "."} }
  IN IF dots = {} THEN name
     ELSE SubSeq(name, 1, (CHOOSE k \in dots : TRUE) - 1)

\* `${settings.outputDir}/${video.filename.replace(/\.[^/.]+$/, '')}_tiktok.mp4`
OutputPath(dir, filename) == dir \o <<"/">> \o StripExt(filename) \o <<"_tiktok.mp4">>

\* ------------------------------------------------------ main process
\* an invocation that takes the caption from the queue as it is when the job
\* is started
NewCall_liveCaption(v, dir) ==
  [ id |-> v.id, inputPath |-> v.filepath, outputPath |-> OutputPath(dir, v.filename),
    caption |-> IF \E i \in 1..Len(videos) : videos[i].id = v.id
                THEN videos[CHOOSE i \in 1..Len(videos) : videos[i].id = v.id].caption
                ELSE v.caption,
    phase |-> "resolving", nprog |-> 0 ]

\* A 'process-video' invocation.  phase: "resolving" (awaiting
\* findPythonCommand), "encoding" (the encoder subprocess is alive).
\* `id` only tags the invocation so that its reply finds the awaiting loop.
NewCall(v, dir) ==
  [ id |-> v.id, inputPath |-> v.filepath, outputPath |-> OutputPath(dir, v.filename),
    caption |-> v.caption, phase |-> "resolving", nprog |-> 0 ]

ResolveReply(id, cause, value) == [ type |-> "reply", id |-> id, settled |-> "resolved", cause |-> cause, value |-> value ]
RejectReply(id, cause, value) == [ type |-> "reply", id |-> id, settled |-> "rejected", cause |-> cause, value |-> value ]
ProgressMsg(id, path, value) == [ type |-> "progress", id |-> id, path |-> path, progress |-> value ]

\* try { pythonCmd = await findPythonCommand() }
\* catch (error) { return { success: false, error: error.message } }
ResolverOutcome(c, found) ==
  IF found
  THEN [ call |-> {[c EXCEPT !.phase = "encoding"]}, msgs |-> << >> ]
  ELSE [ call |-> {},
         msgs |-> << ResolveReply(c.id, "notfound", [success |-> FALSE, error |-> NotFoundMsg]) >> ]

Commit(c, r) ==
  /\ calls' = (calls \ {c}) \cup r.call
  /\ channel' = channel \o r.msgs

\* findPythonCommand settles: with a command, and the handler spawns the
\* encoder; or with 'Python not found', and the handler returns the failure
FindPythonCommand(c, found) ==
  /\ c.phase = "resolving"
  /\ Commit(c, ResolverOutcome(c, found))
  /\ UNCHANGED <<videos, isProcessing, pending, idx, abortAlert, nextId, outputDir, runDir>>

\* python.stdout.on('data') carrying one progress line
EncoderStdout(c, value) ==
  /\ c.phase = "encoding"
  /\ c.nprog < MaxProgress
  /\ Commit(c, [ call |-> {[c EXCEPT !.nprog = @ + 1]},
                 msgs |-> << ProgressMsg(c.id, c.inputPath, value) >> ])
  /\ UNCHANGED <<videos, isProcessing, pending, idx, abortAlert, nextId, outputDir, runDir>>

\* python.on('error'): reject({ success: false, error: error.message })
EncoderError(c) ==
  /\ c.phase = "encoding"
  /\ c.nprog = 0
  /\ Commit(c, [ call |-> {},
                 msgs |-> << RejectReply(c.id, "launch", [success |-> FALSE, error |-> SpawnErrorMsg]) >> ])
  /\ UNCHANGED <<videos, isProcessing, pending, idx, abortAlert, nextId, outputDir, runDir>>

\* python.on('close', code) with the stderr text accumulated so far
\* (the reply also records, for the properties, the exit it came from)
ExitOf(code, stderr) == [ code |-> code, stderr |-> stderr ]

\* the close handler taking any stderr output for a failure
CloseOutcome_stderrFails(c, code, stderr) ==
  IF code = 0 /\ stderr = EmptyStr
  THEN ResolveReply(c.id, "exit0", [success |-> TRUE, error |-> Undefined]) @@ ExitOf(code, stderr)
  ELSE RejectReply(c.id, "exit", [success |-> FALSE, error |-> OrElse(stderr, ExitMsg(code))]) @@ ExitOf(code, stderr)

CloseOutcome(c, code, stderr) ==
  IF code = 0
  THEN ResolveReply(c.id, "exit0", [success |-> TRUE, error |-> Undefined]) @@ ExitOf(code, stderr)
  ELSE RejectReply(c.id, "exit", [success |-> FALSE, error |-> OrElse(stderr, ExitMsg(code))]) @@ ExitOf(code, stderr)

EncoderClose(c, code, stderr) ==
  /\ c.phase = "encoding"
  /\ Commit(c, [ call |-> {}, msgs |-> << CloseOutcome(c, code, stderr) >> ])
  /\ UNCHANGED <<videos, isProcessing, pending, idx, abortAlert, nextId, outputDir, runDir>>

\* ---------------------------------------------------------- renderer
\* ids taken from the clock alone: one value for all the files of a call
NewVideos_sameId(files, base) ==
  [ i \in 1..Len(files) |->
      [ id |-> base + 1, filepath |-> files[i], filename |-> LastSegment(files[i]),
        caption |-> EmptyStr, status |-> "pending", progress |-> 0, errorMsg |-> Undefined ] ]

\* files.map((filepath) => ({ id: `${Date.now()}-${Math.random()}`, filepath,
\* filename, caption: '', status: 'pending', ..., progress: 0 })): the id is a
\* fresh value, here the next number of a counter
NewVideos(files, base) ==
  [ i \in 1..Len(files) |->
      [ id |-> base + i, filepath |-> files[i], filename |-> LastSegment(files[i]),
        caption |-> EmptyStr, status |-> "pending", progress |-> 0, errorMsg |-> Undefined ] ]

FileSelections == UNION { [1..n -> Paths] : n \in 1..MaxFiles }

\* handleAddVideos
AddVideos(files) ==
  /\ nextId + Len(files) <= MaxIds
  /\ videos' = videos \o NewVideos(files, nextId)
  /\ nextId' = nextId + Len(files)
  /\ UNCHANGED <<isProcessing, pending, idx, abortAlert, outputDir, runDir, calls, channel>>

\* handleRemoveVideo
RemoveVideo(id) ==
  /\ videos' = SelectSeq(videos, LAMBDA v : v.id # id)
  /\ UNCHANGED <<isProcessing, pending, idx, abortAlert, nextId, outputDir, runDir, calls, channel>>

\* handleClearAll (confirmed)
ClearAll ==
  /\ Len(videos) > 0
  /\ videos' = << >>
  /\ UNCHANGED <<isProcessing, pending, idx, abortAlert, nextId, outputDir, runDir, calls, channel>>

\* onProcessingProgress listener
DeliverProgress ==
  /\ channel # << >>
  /\ Head(channel).type = "progress"
  /\ videos' = ApplyProgress(videos, Head(channel).path, Head(channel).progress)
  /\ channel' = Tail(channel)
  /\ UNCHANGED <<isProcessing, pending, idx, abortAlert, nextId, outputDir, runDir, calls>>

\* the fields of a snapshot element that the loop reads
Snapshot(vs) ==
  [ i \in 1..Len(vs) |-> [ id |-> vs[i].id, filepath |-> vs[i].filepath,
                            filename |-> vs[i].filename, caption |-> vs[i].caption ] ]

\* one turn of `for (const video of pending)` up to its await: mark the job
\* processing and invoke 'process-video'
StartJob(vs, snap, i, dir) ==
  /\ videos' = MarkProcessing(vs, snap[i].id)
  /\ idx' = i
  /\ calls' = calls \cup { NewCall(snap[i], dir) }

\* handleProcessAll, from the click to the first await
ProcessAll ==
  /\ ProcessButtonEnabled
  /\ LET snap == Snapshot(Eligible(videos))
     IN IF Len(snap) = 0
        THEN UNCHANGED mainVars
        ELSE /\ isProcessing' = TRUE
             /\ pending' = snap
             /\ abortAlert' = FALSE
             /\ runDir' = outputDir
             /\ StartJob(videos, snap, 1, outputDir)
             /\ UNCHANGED <<nextId, outputDir, channel>>

\* const errorMsg = error.error || 'Processing failed'
CaughtMsg(m) == OrElse(m.value.error, ProcessingFailed)

\* a catch clause that leaves the job as it is
ApplyOutcome_errorSkipped(vs, id, m) ==
  IF m.settled = "resolved"
  THEN MarkCompleted(vs, id)
  ELSE vs

\* the job's state after `await window.electronAPI.processVideo(...)` settled with m
ApplyOutcome(vs, id, m) ==
  IF m.settled = "resolved"
  THEN MarkCompleted(vs, id)
  ELSE MarkError(vs, id, CaughtMsg(m))

\* the catch clause reached `break`
Breaks(m) == m.settled = "rejected" /\ IsRunAborting(CaughtMsg(m))

\* handleProcessAll, from the settling of one await to the next await or to
\* the end of the handler (the loop's variables die with it)
DeliverReply ==
  /\ channel # << >>
  /\ Head(channel).type = "reply"
  /\ isProcessing
  /\ LET m == Head(channel)
         vs1 == ApplyOutcome(videos, pending[idx].id, m)
     IN /\ channel' = Tail(channel)
        /\ IF ~Breaks(m) /\ idx < Len(pending)
           THEN /\ StartJob(vs1, pending, idx + 1, runDir)
                /\ UNCHANGED <<isProcessing, pending, abortAlert, nextId, outputDir, runDir>>
           ELSE /\ videos' = vs1
                /\ abortAlert' = Breaks(m)
                /\ isProcessing' = FALSE
                /\ pending' = << >>
                /\ idx' = 0
                /\ runDir' = EmptyStr
                /\ UNCHANGED <<nextId, outputDir, calls>>

\* loadSettings of the mount effect, when its getSetting calls have answered:
\* outputDir: outputDir || defaultDir || 'TikTok_Output'
LoadSettings ==
  /\ outputDir = EmptyStr
  /\ outputDir' = OrElse(StoredOutputDir, OrElse(StoredDefaultDir, FallbackDir))
  /\ UNCHANGED <<videos, isProcessing, pending, idx, abortAlert, nextId, runDir, calls, channel>>

\* ------------------------------------------------------ specification
InitMain ==
  /\ videos = << >>
  /\ isProcessing = FALSE
  /\ pending = << >>
  /\ idx = 0
  /\ abortAlert = FALSE
  /\ nextId = 0
  /\ outputDir = EmptyStr
  /\ runDir = EmptyStr
  /\ calls = {}
  /\ channel = << >>

ParserIdle ==
  /\ pText = << >>
  /\ pCuts = {}
  /\ pPos = 0
  /\ pEvents = << >>

ResolverIdle ==
  /\ rEnv = << >>
  /\ rIndex = 0
  /\ rProbes = {}
  /\ rSettled = "idle"
  /\ rLaunched = << >>

Init == InitMain /\ bulkCaption = EmptyStr /\ ParserIdle /\ ResolverIdle

Next ==
  \/ \E files \in FileSelections : AddVideos(files) /\ UNCHANGED sideVars
  \/ \E id \in Ids(videos) : RemoveVideo(id) /\ UNCHANGED sideVars
  \/ ClearAll /\ UNCHANGED sideVars
  \/ ProcessAll /\ UNCHANGED sideVars
  \/ DeliverProgress /\ UNCHANGED sideVars
  \/ DeliverReply /\ UNCHANGED sideVars
  \/ \E c \in calls : \E found \in BOOLEAN : FindPythonCommand(c, found) /\ UNCHANGED sideVars
  \/ \E c \in calls : \E value \in ProgressValues : EncoderStdout(c, value) /\ UNCHANGED sideVars
  \/ \E c \in calls : EncoderError(c) /\ UNCHANGED sideVars
  \/ \E c \in calls : \E code \in ExitCodes : \E stderr \in StderrTexts : EncoderClose(c, code, stderr) /\ UNCHANGED sideVars

Spec == Init /\ [][Next]_vars

\* Every subprocess the main process launched exits or fails to launch (the
\* version checks of a resolution, the encoder), and a message sent to the
\* renderer is delivered.
SubprocessEnds ==
  \E c \in calls :
     \/ \E found \in BOOLEAN : FindPythonCommand(c, found)
     \/ EncoderError(c)
     \/ \E code \in ExitCodes : \E stderr \in StderrTexts : EncoderClose(c, code, stderr)

Fairness ==
  /\ WF_vars(SubprocessEnds /\ UNCHANGED sideVars)
  /\ WF_vars(DeliverProgress /\ UNCHANGED sideVars)
  /\ WF_vars(DeliverReply /\ UNCHANGED sideVars)

SpecLive == Spec /\ Fairness

\* The same program with the answer of the settings store, which may come at
\* any moment after the mount, before, during or after a run.
NextSettings ==
  \/ Next
  \/ LoadSettings /\ UNCHANGED sideVars

SpecSettings == Init /\ [][NextSettings]_vars

\* ------------------------------------------------- progress parser
\* Text is a sequence of one-character strings.  A progress value is kept in
\* hundredths (parseFloat of "55.5" is 5550); NaN is -1.
NaN == -1
Newline == "\n"
Digits == {"0", "1", "2", "3", "4", "5", "6", "7", "8", "9"}
DigitVal(ch) ==
  CASE ch = "0" -> 0 [] ch = "1" -> 1 [] ch = "2" -> 2 [] ch = "3" -> 3 [] ch = "4" -> 4
    [] ch = "5" -> 5 [] ch = "6" -> 6 [] ch = "7" -> 7 [] ch = "8" -> 8 [] ch = "9" -> 9

Marker == <<"P", "R", "O", "G", "R", "E", "S", "S", ":">>
MarkerSpace == Marker \o <<" ">>

\* the text fed to the parser: "PROGRESS: 10\nnoise\nPROGRESS: 55.5\n"
SampleText ==
  MarkerSpace \o <<"1", "0", Newline>> \o <<"n", "o", "i", "s", "e", Newline>> \o
  MarkerSpace \o <<"5", "5", ".", "5", Newline>>
Texts == { SampleText }

OccursAt(s, t, i) == i + Len(t) - 1 <= Len(s) /\ SubSeq(s, i, i + Len(t) - 1) = t

\* line.includes('PROGRESS:')
IncludesMarker(line) == \E i \in 1..Len(line) : OccursAt(line, Marker, i)

\* chunk.split('\n')
RECURSIVE Split(_)
Split(s) ==
  IF \A i \in 1..Len(s) : s[i] # Newline
  THEN << s >>
  ELSE LET k == CHOOSE i \in 1..Len(s) : s[i] = Newline /\ \A j \in 1..(i - 1) : s[j] # Newline
       IN << SubSeq(s, 1, k - 1) >> \o Split(SubSeq(s, k + 1, Len(s)))

\* the longest run of [\d.] starting at position i
RECURSIVE NumRun(_, _)
NumRun(s, i) ==
  IF i <= Len(s) /\ s[i] \in Digits \cup {"."}
  THEN << s[i] >> \o NumRun(s, i + 1)
  ELSE << >>

\* line.match(/PROGRESS: ([\d.]+)/): the capture of the leftmost match, or
\* the empty sequence when there is no match
MatchCapture(line) ==
  LET starts == { i \in 1..Len(line) :
                    OccursAt(line, MarkerSpace, i) /\ NumRun(line, i + Len(MarkerSpace)) # << >> }
  IN IF starts = {} THEN << >>
     ELSE NumRun(line, (CHOOSE i \in starts : \A j \in starts : i <= j) + Len(MarkerSpace))

RECURSIVE DigitRun(_, _)
DigitRun(s, i) ==
  IF i <= Len(s) /\ s[i] \in Digits THEN << s[i] >> \o DigitRun(s, i + 1) ELSE << >>

RECURSIVE DecimalValue(_)
DecimalValue(ds) ==
  IF ds = << >> THEN 0 ELSE 10 * DecimalValue(SubSeq(ds, 1, Len(ds) - 1)) + DigitVal(ds[Len(ds)])

\* parseFloat: the longest prefix that is a decimal literal, in hundredths
ParseFloat(s) ==
  LET int == DigitRun(s, 1)
      hasDot == Len(int) < Len(s) /\ s[Len(int) + 1] = "."
      frac == IF hasDot THEN DigitRun(s, Len(int) + 2) ELSE << >>
      f1 == IF Len(frac) >= 1 THEN DigitVal(frac[1]) ELSE 0
      f2 == IF Len(frac) >= 2 THEN DigitVal(frac[2]) ELSE 0
  IN IF int = << >> /\ frac = << >> THEN NaN
     ELSE 100 * DecimalValue(int) + 10 * f1 + f2

\* the events one line gives: if (line.includes('PROGRESS:')) { match ... send }
LineEvent(line) ==
  IF IncludesMarker(line) /\ MatchCapture(line) # << >>
  THEN << ParseFloat(MatchCapture(line)) >>
  ELSE << >>

RECURSIVE LinesEvents(_)
LinesEvents(lines) ==
  IF lines = << >> THEN << >> ELSE LineEvent(Head(lines)) \o LinesEvents(Tail(lines))

\* python.stdout.on('data'): the events sent for one chunk
\* (every piece of chunk.split('\n') is treated as a line)
OnStdoutData(chunk) == LinesEvents(Split(chunk))

\* the end of the next chunk: the next cut after pPos, or the end of the text
NextCut == IF \E k \in pCuts : k > pPos
           THEN CHOOSE k \in pCuts : k > pPos /\ \A j \in pCuts : j > pPos => k <= j
           ELSE Len(pText)

\* the stream delivers the next chunk
FeedChunk ==
  /\ pPos < Len(pText)
  /\ pEvents' = pEvents \o OnStdoutData(SubSeq(pText, pPos + 1, NextCut))
  /\ pPos' = NextCut
  /\ UNCHANGED <<pText, pCuts>>

\* the sets of at most n chunk boundaries inside a text of length len
RECURSIVE CutSets(_, _)
CutSets(len, n) ==
  IF n = 0 THEN { {} }
  ELSE LET fewer == CutSets(len, n - 1)
       IN fewer \cup { cs \cup {k} : cs \in fewer, k \in 1..(len - 1) }

InitParser ==
  /\ InitMain /\ bulkCaption = EmptyStr /\ ResolverIdle
  /\ pText \in Texts
  /\ pCuts \in CutSets(Len(pText), MaxCuts)
  /\ pPos = 0
  /\ pEvents = << >>

NextParser == FeedChunk /\ UNCHANGED <<mainVars, bulkCaption, resolverVars>>

SpecParser == InitParser /\ [][NextParser]_vars

\* ------------------------------------------------- editing the queue
\* A caption is a sequence of tokens, blanks or words.
Whitespace == {" ", "\t", "\n"}

\* String.prototype.trim
RECURSIVE Trim(_)
Trim(s) ==
  IF s = << >> THEN s
  ELSE IF Head(s) \in Whitespace THEN Trim(Tail(s))
  ELSE IF s[Len(s)] \in Whitespace THEN Trim(SubSeq(s, 1, Len(s) - 1))
  ELSE s

\* captions typed for single jobs, texts typed in the bulk caption area
Captions == { EmptyStr, <<" ", "\t">>, <<" ", "mine", " ">> }
BulkTexts == { EmptyStr, <<" ">>, <<"bulk", " ">> }

\* handleUpdateCaption
UpdateCaption(id, caption) ==
  /\ videos' = [ i \in 1..Len(videos) |->
                   IF videos[i].id = id THEN [videos[i] EXCEPT !.caption = caption] ELSE videos[i] ]
  /\ UNCHANGED <<isProcessing, pending, idx, abortAlert, nextId, outputDir, runDir, calls, channel>>
  /\ UNCHANGED bulkCaption

\* the bulk caption text area: onChange
SetBulkCaption(text) ==
  /\ bulkCaption' = text
  /\ UNCHANGED mainVars

\* the map that replaces only captions that are exactly ''
FillEmpty_noTrim(vs, text) ==
  [ i \in 1..Len(vs) |->
      IF vs[i].caption = EmptyStr THEN [vs[i] EXCEPT !.caption = text] ELSE vs[i] ]

\* prev.map((v) => (v.caption.trim() === '' ? { ...v, caption: bulkCaption } : v))
FillEmpty(vs, text) ==
  [ i \in 1..Len(vs) |->
      IF Trim(vs[i].caption) = EmptyStr THEN [vs[i] EXCEPT !.caption = text] ELSE vs[i] ]

\* handleApplyBulkCaption
ApplyBulkCaption ==
  /\ IF Trim(bulkCaption) = EmptyStr
     THEN videos' = videos
     ELSE videos' = FillEmpty(videos, bulkCaption)
  /\ UNCHANGED <<isProcessing, pending, idx, abortAlert, nextId, outputDir, runDir, calls, channel>>
  /\ UNCHANGED bulkCaption

\* jobs as runs leave them in the queue once the app is idle again
IdleJobs(id) ==
  { [ id |-> id, filepath |-> p, filename |-> LastSegment(p), caption |-> c,
      status |-> o.status, progress |-> o.progress, errorMsg |-> o.errorMsg ] :
      p \in Paths, c \in Captions,
      o \in { [ status |-> "pending", progress |-> 0, errorMsg |-> Undefined ],
               [ status |-> "completed", progress |-> 100, errorMsg |-> Undefined ],
               [ status |-> "error", progress |-> 50, errorMsg |-> ExitMsg(1) ] } }

IdleQueues ==
  UNION { { q \in [ 1..n -> UNION { IdleJobs(k) : k \in 1..n } ] : \A k \in 1..n : q[k].id = k } :
          n \in 0..MaxIds }

InitQueue ==
  /\ videos \in IdleQueues
  /\ nextId = Len(videos)
  /\ isProcessing = FALSE
  /\ pending = << >>
  /\ idx = 0
  /\ abortAlert = FALSE
  /\ outputDir = EmptyStr
  /\ runDir = EmptyStr
  /\ calls = {}
  /\ channel = << >>
  /\ bulkCaption = EmptyStr
  /\ ParserIdle /\ ResolverIdle

NextQueue ==
  \/ \E files \in FileSelections : AddVideos(files) /\ UNCHANGED sideVars
  \/ \E id \in Ids(videos) : RemoveVideo(id) /\ UNCHANGED sideVars
  \/ ClearAll /\ UNCHANGED sideVars
  \/ \E id \in Ids(videos) : \E caption \in Captions :
        UpdateCaption(id, caption) /\ UNCHANGED <<parserVars, resolverVars>>
  \/ \E text \in BulkTexts : SetBulkCaption(text) /\ UNCHANGED <<parserVars, resolverVars>>
  \/ ApplyBulkCaption /\ UNCHANGED <<parserVars, resolverVars>>

SpecQueue == InitQueue /\ [][NextQueue]_vars

\* Captions edited before and during runs: the run loop with its invocations
\* and the caption handlers (no removal, no encoder output).  The captions
\* typed and the bulk text are the non-blank ones; a job that was never
\* given a caption has the empty one.
TypedCaptions == { c \in Captions : Trim(c) # EmptyStr }
TypedBulkTexts == { t \in BulkTexts : Trim(t) # EmptyStr }

NextCaptions ==
  \/ \E files \in FileSelections : AddVideos(files) /\ UNCHANGED sideVars
  \/ \E id \in Ids(videos) : \E caption \in TypedCaptions :
        UpdateCaption(id, caption) /\ UNCHANGED <<parserVars, resolverVars>>
  \/ \E text \in TypedBulkTexts : SetBulkCaption(text) /\ UNCHANGED <<parserVars, resolverVars>>
  \/ ApplyBulkCaption /\ UNCHANGED <<parserVars, resolverVars>>
  \/ ProcessAll /\ UNCHANGED sideVars
  \/ DeliverReply /\ UNCHANGED sideVars
  \/ \E c \in calls : \E found \in BOOLEAN : FindPythonCommand(c, found) /\ UNCHANGED sideVars
  \/ \E c \in calls : \E code \in ExitCodes : EncoderClose(c, code, EmptyStr) /\ UNCHANGED sideVars

SpecCaptions == Init /\ [][NextCaptions]_vars

\* ------------------------------------------- findPythonCommand, by event
\* What the version check of one candidate does once spawned: it exits with
\* code 0, exits with another code, fails to launch, or runs on and never exits.
ProbeBehaviours == {"exit0", "exitNonZero", "launchFails", "hangs"}

\* resolve(cmd) / reject(new Error(...)): a promise settles once, later calls
\* are without effect
Settle(settled, outcome) == IF settled = "pending" THEN outcome ELSE settled

\* tryNext(): index is the 0-based `index` of the source, candidates are
\* numbered from 1 as in `commands`
TryNext(index, probes, settled, launched) ==
  IF index >= Len(commands)
  THEN [ index |-> index, probes |-> probes, settled |-> Settle(settled, "notfound"),
         launched |-> launched ]
  ELSE [ index |-> index,
         probes |-> probes \cup { [ cand |-> index + 1, st |-> "running" ] },
         settled |-> settled,
         launched |-> Append(launched, index + 1) ]

SetResolver(r) ==
  /\ rIndex' = r.index
  /\ rProbes' = r.probes
  /\ rSettled' = r.settled
  /\ rLaunched' = r.launched

\* findPythonCommand(): new Promise, index = 0, tryNext()
CallFindPython ==
  /\ rSettled = "idle"
  /\ SetResolver(TryNext(0, rProbes, "pending", rLaunched))
  /\ UNCHANGED rEnv

\* test.on('error'): index++; tryNext(). Node may emit 'close' for the same
\* child afterwards (closeFollows); both handlers are registered on it.
ProbeError(p, closeFollows) ==
  /\ p.st = "running"
  /\ rEnv[p.cand] = "launchFails"
  /\ SetResolver(TryNext(rIndex + 1,
                         (rProbes \ {p}) \cup (IF closeFollows THEN { [p EXCEPT !.st = "errored"] } ELSE {}),
                         rSettled, rLaunched))
  /\ UNCHANGED rEnv

\* the exit code 'close' reports: 0 only for a check that ran and exited with 0
CloseCode(p) == IF p.st = "running" /\ rEnv[p.cand] = "exit0" THEN 0 ELSE 1

\* test.on('close', code): resolve(cmd) on code 0, else index++; tryNext()
ProbeClose(p) ==
  /\ \/ p.st = "running" /\ rEnv[p.cand] \in {"exit0", "exitNonZero"}
     \/ p.st = "errored"
  /\ IF CloseCode(p) = 0
     THEN SetResolver([ index |-> rIndex, probes |-> rProbes \ {p},
                        settled |-> Settle(rSettled, commands[p.cand]), launched |-> rLaunched ])
     ELSE SetResolver(TryNext(rIndex + 1, rProbes \ {p}, rSettled, rLaunched))
  /\ UNCHANGED rEnv

InitResolver ==
  /\ InitMain /\ bulkCaption = EmptyStr /\ ParserIdle
  /\ rEnv \in [ 1..Len(commands) -> ProbeBehaviours ]
  /\ rIndex = 0
  /\ rProbes = {}
  /\ rSettled = "idle"
  /\ rLaunched = << >>

NextResolver ==
  \/ CallFindPython /\ UNCHANGED <<mainVars, bulkCaption, parserVars>>
  \/ \E p \in rProbes : \E closeFollows \in BOOLEAN :
        ProbeError(p, closeFollows) /\ UNCHANGED <<mainVars, bulkCaption, parserVars>>
  \/ \E p \in rProbes : ProbeClose(p) /\ UNCHANGED <<mainVars, bulkCaption, parserVars>>

SpecResolver == InitResolver /\ [][NextResolver]_vars

\* ------------------------------------------------------------- claims
StatusesOf(vs, id) == { vs[i].status : i \in { k \in 1..Len(vs) : vs[k].id = id } }
Processing(vs) == { i \in 1..Len(vs) : vs[i].status = "processing" }
EncodersAlive == { c \in calls : c.phase = "encoding" }

\* the loop of handleProcessAll resumes with message m in this step
DeliveredReply(m) ==
  /\ channel # << >>
  /\ m = Head(channel)
  /\ m.type = "reply"
  /\ channel' = Tail(channel)

\* the progress listener runs with message m in this step
DeliveredProgress(m) ==
  /\ channel # << >>
  /\ m = Head(channel)
  /\ m.type = "progress"
  /\ channel' = Tail(channel)

\* C1: during a run the snapshot's jobs are started one at a time in queue
\* order: at most one 'process-video' invocation (hence at most one encoder)
\* is in flight, it belongs to the job at the loop's position, every earlier
\* job of the snapshot still in the queue has its final outcome applied, and
\* at most one job of the queue is `processing`.
C1_OneJobAtATime ==
  /\ Cardinality(calls) <= 1
  /\ Cardinality(EncodersAlive) <= 1
  /\ Cardinality(Processing(videos)) <= 1
  /\ \A c \in calls :
        /\ isProcessing
        /\ idx \in 1..Len(pending)
        /\ c.id = pending[idx].id
        /\ \A j \in 1..(idx - 1) : StatusesOf(videos, pending[j].id) \subseteq {"completed", "error"}
  /\ \A i \in Processing(videos) : isProcessing /\ videos[i].id = pending[idx].id

\* C1 witness: the encoder of the snapshot's second job is alive, the first
\* job's outcome is applied
C1_Witness ==
  /\ idx = 2
  /\ \E c \in EncodersAlive : c.id = pending[2].id
  /\ StatusesOf(videos, pending[1].id) = {"error"}
  /\ StatusesOf(videos, pending[2].id) = {"processing"}

\* C2: an encoder that exits non-zero, whatever its stderr text, never
\* aborts the run: the job is marked `error` and, if a later job of the
\* snapshot remains, the run goes on and starts it.
C2_EncoderFailureNeverAborts ==
  [][ (channel # << >> /\ DeliveredReply(Head(channel)) /\ Head(channel).cause = "exit") =>
          /\ StatusesOf(videos', pending[idx].id) \subseteq {"error"}
          /\ idx < Len(pending) =>
               /\ isProcessing'
               /\ idx' = idx + 1
               /\ \E c \in calls' : c.id = pending[idx + 1].id ]_vars

\* C3: when command resolution fails for a job, the job ends in `error`
\* carrying the resolver's message, and is not marked `completed`.
C3_ResolveFailureMarksError ==
  [][ (channel # << >> /\ DeliveredReply(Head(channel)) /\ Head(channel).cause = "notfound") =>
          \A i \in 1..Len(videos') :
             videos'[i].id = pending[idx].id =>
               videos'[i].status = "error" /\ videos'[i].errorMsg = NotFoundMsg ]_vars

\* C4: when command resolution fails the run is aborted: no later job is
\* marked processing or invoked, the run ends, and the run-level
\* 'Python Not Found' dialog is shown.
C4_ResolveFailureAbortsRun ==
  [][ (channel # << >> /\ DeliveredReply(Head(channel)) /\ Head(channel).cause = "notfound") =>
          /\ ~isProcessing'
          /\ abortAlert'
          /\ calls' = calls
          /\ Processing(videos') = {} ]_vars

\* C5: the jobs a run processes are fixed when it starts: exactly the jobs
\* then `pending` or `error`, in queue order; the snapshot does not change
\* during the run, jobs are invoked only from it, in its order, and a job
\* that is not in it (one enqueued meanwhile) keeps its status.
C5_SnapshotFixedAtStart ==
  [][ /\ (~isProcessing /\ isProcessing') =>
            /\ pending' = Snapshot(SelectSeq(videos, LAMBDA v : v.status \in {"pending", "error"}))
            /\ idx' = 1
      /\ (isProcessing /\ isProcessing') =>
            /\ pending' = pending
            /\ idx' \in {idx, idx + 1}
      /\ \A c \in calls' \ calls :
            /\ isProcessing'
            /\ c.phase = "resolving" => (idx' # idx /\ c.id = pending'[idx'].id)
      /\ isProcessing' =>
            \A i \in 1..Len(videos') :
               videos'[i].id \notin Ids(pending') =>
                 /\ videos'[i].status \in {"pending", "completed"}
                 /\ videos'[i].id \notin Ids(videos) => videos'[i].status = "pending"
                 /\ videos'[i].id \in Ids(videos) => videos'[i].status \in StatusesOf(videos, videos'[i].id)
    ]_vars

\* C5 witness: a run is at its last snapshot job while a job enqueued after
\* the run started waits in the queue
C5_Witness ==
  /\ isProcessing
  /\ idx = Len(pending)
  /\ \E c \in EncodersAlive : c.id = pending[idx].id
  /\ \E i \in 1..Len(videos) : videos[i].id \notin Ids(pending) /\ videos[i].status = "pending"

\* C6: once a job of the snapshot is removed from the queue, a progress or
\* status update for it changes nothing: it is not re-inserted, no other job
\* is modified by the update, and the loop goes on to the next snapshot job
\* or ends the run.
C6_RemovedJobUpdatesAreNoOps ==
  [][ channel # << >> =>
        LET m == Head(channel) IN
        /\ (DeliveredProgress(m) /\ m.id \notin Ids(videos)) => videos' = videos
        /\ (DeliveredReply(m) /\ m.id \notin Ids(videos)) =>
              /\ m.id \notin Ids(videos')
              /\ ApplyOutcome(videos, m.id, m) = videos
              /\ isProcessing' => idx' = idx + 1
    ]_vars

\* C7: every status change of a job is pending->processing,
\* error->processing, processing->completed or processing->error; a run never
\* takes a completed job into its snapshot.
AllowedTransitions ==
  { <<"pending", "processing">>, <<"error", "processing">>,
    <<"processing", "completed">>, <<"processing", "error">> }

C7_StatusTransitions ==
  [][ /\ \A i \in 1..Len(videos) : \A j \in 1..Len(videos') :
            (videos[i].id = videos'[j].id /\ videos[i].status # videos'[j].status) =>
               <<videos[i].status, videos'[j].status>> \in AllowedTransitions
      /\ (~isProcessing /\ isProcessing') =>
            \A i \in 1..Len(videos) :
               videos[i].status = "completed" => videos[i].id \notin Ids(pending')
    ]_vars

\* C7 witness: a re-run over one `error` and one `completed` job: the
\* snapshot holds only the failed job, which is being reprocessed
C7_Witness ==
  /\ isProcessing
  /\ Len(pending) = 1
  /\ \E i \in 1..Len(videos) : videos[i].status = "completed"
  /\ \E j \in 1..Len(videos) :
        /\ videos[j].id = pending[1].id
        /\ videos[j].status = "processing"
        /\ videos[j].errorMsg # Undefined

\* C8: a completed job has progress exactly 100.
C8_CompletedPinnedTo100 ==
  \A i \in 1..Len(videos) : videos[i].status = "completed" => videos[i].progress = 100

\* C9: a job carries an error message only while its status is `error`.
C9_ErrorMsgOnlyInError ==
  \A i \in 1..Len(videos) : videos[i].errorMsg # Undefined => videos[i].status = "error"

\* the events of the whole text read line by line: one per complete
\* (newline-terminated) line carrying the marker and a number
CompleteLines(text) == LET ls == Split(text) IN SubSeq(ls, 1, Len(ls) - 1)
ExpectedEvents(text) == LinesEvents(CompleteLines(text))

\* C10: once the whole text is fed, the events emitted are those of its
\* complete lines, in order, however the text was cut into chunks.
C10_ChunkingIndependent ==
  pPos = Len(pText) => pEvents = ExpectedEvents(pText)

\* C13: within one run the command is resolved at most once: once a job's
\* invocation has resolved the command (its reply comes from a spawned
\* encoder), the invocation of the next job of the run launches no
\* version-check probe; the first job of the next run resolves afresh.
C13_ResolvedOncePerRun ==
  [][ /\ (channel # << >> /\ DeliveredReply(Head(channel)) /\ Head(channel).cause # "notfound") =>
            \A c \in calls' \ calls : c.phase # "resolving"
      /\ (~isProcessing /\ isProcessing') =>
            \A c \in calls' : c.phase = "resolving"
    ]_vars

\* C14: a progress event of the in-flight job's encoder updates the progress
\* of that job only: every other job of the queue, a job with the same
\* source path included, keeps its progress and status.
C14_ProgressTouchesOnlyItsJob ==
  [][ (channel # << >> /\ DeliveredProgress(Head(channel))) =>
          /\ Len(videos') = Len(videos)
          /\ \A i \in 1..Len(videos) :
                videos[i].id # Head(channel).id =>
                   /\ videos'[i].progress = videos[i].progress
                   /\ videos'[i].status = videos[i].status
    ]_vars

\* replies to the invocation of job id that wait in the channel
RepliesFor(ch, id) == { k \in 1..Len(ch) : ch[k].type = "reply" /\ ch[k].id = id }

\* C15: a job's final state follows its encoder's exit: exit code 0 makes
\* the job `completed` with progress 100 whatever the stderr text; another
\* exit code makes it `error` with the stderr text as message when there is
\* one and otherwise a message that contains the exit code; an invocation
\* yields one outcome: none while its process runs, one when it has gone.
C15_OutcomeFollowsExit ==
  [][ /\ (channel # << >> /\ DeliveredReply(Head(channel)) /\ Head(channel).cause \in {"exit0", "exit"}) =>
            LET m == Head(channel) IN
            \A j \in 1..Len(videos') :
               videos'[j].id = m.id =>
                  IF m.code = 0
                  THEN videos'[j].status = "completed" /\ videos'[j].progress = 100
                  ELSE /\ videos'[j].status = "error"
                       /\ m.stderr # EmptyStr => videos'[j].errorMsg = m.stderr
                       /\ m.stderr = EmptyStr => Includes(videos'[j].errorMsg, ToString(m.code))
      /\ \A c \in calls :
            /\ RepliesFor(channel, c.id) = {}
            /\ c \notin calls' /\ (\A d \in calls' : d.id # c.id) =>
                  Cardinality(RepliesFor(channel', c.id)) = 1
    ]_vars

\* C15 witness: one job is in `error` with the synthesized message of an
\* exit with code 1 and no stderr text, and the next job's encoder has exited
\* with code 0 after writing to stderr
C15_Witness ==
  /\ \E i \in 1..Len(videos) : videos[i].status = "error" /\ videos[i].errorMsg = ExitMsg(1)
  /\ channel # << >>
  /\ Head(channel).type = "reply"
  /\ Head(channel).cause = "exit0"
  /\ Head(channel).stderr # EmptyStr

\* C16: every run that enters Running returns to Idle, given that every
\* launched subprocess exits or fails to launch, whether its jobs succeed,
\* fail, or the run is aborted; with no eligible job a click on Process All
\* leaves the run Idle and every job as it was; and in Idle no job of the
\* queue is `processing`.
C16_RunReturnsToIdle ==
  /\ isProcessing ~> ~isProcessing
  /\ [](~isProcessing => Processing(videos) = {})
  /\ [][ (~isProcessing /\ Eligible(videos) = << >>) =>
            /\ ~isProcessing'
            /\ \A i \in 1..Len(videos) : \A j \in 1..Len(videos') :
                  videos'[j].id = videos[i].id => videos'[j] = videos[i] ]_vars

\* C16 witness: a run is back in Idle after being aborted: one job failed
\* with a message that holds 'Python not found', a later job of the queue was
\* never started
C16_Witness ==
  /\ ~isProcessing
  /\ abortAlert
  /\ \E i \in 1..Len(videos) : \E j \in 1..Len(videos) :
        /\ i < j
        /\ videos[i].status = "error" /\ Includes(videos[i].errorMsg, PythonNotFound)
        /\ videos[j].status = "pending"

\* C19: a run started while the output directory is empty is rejected
\* before any subprocess is spawned and before any job changes status.
C19_EmptyOutputDirRejected ==
  [][ (~isProcessing /\ outputDir = EmptyStr) =>
          /\ ~isProcessing'
          /\ calls' = calls
          /\ \A i \in 1..Len(videos) : \A j \in 1..Len(videos') :
                videos'[j].id = videos[i].id => videos'[j].status = videos[i].status
    ]_vars

\* output paths handed to the encoders of the snapshot jobs before position i
HandedBefore(snap, i, dir) == { OutputPath(dir, snap[j].filename) : j \in 1..(i - 1) }

\* C20: within one run no two distinct jobs are handed the same encoder
\* output path, jobs enqueued from the same source path twice and jobs whose
\* file names differ only in folder or extension included.
C20_OutputPathsDistinct ==
  [][ \A c \in calls' \ calls :
         c.phase = "resolving" => c.outputPath \notin HandedBefore(pending', idx', runDir') ]_vars

\* the first candidate in list order whose version check exits with 0 (0: none)
FirstUsable ==
  IF \E i \in 1..Len(commands) : rEnv[i] = "exit0"
  THEN CHOOSE i \in 1..Len(commands) :
         rEnv[i] = "exit0" /\ \A j \in 1..(i - 1) : rEnv[j] # "exit0"
  ELSE 0

\* C11: the resolver's result is the first candidate in list order whose
\* version check exits 0; it fails with 'Python not found' only when every
\* candidate fails to launch or exits non-zero, and does so once all of them
\* have; candidates are probed one after another in list order, each at most
\* once, and none after the returned one is ever launched.
C11_FirstUsableCandidate ==
  /\ rSettled \in { commands[i] : i \in 1..Len(commands) } =>
        /\ FirstUsable # 0
        /\ rSettled = commands[FirstUsable]
        /\ \A k \in 1..Len(rLaunched) : rLaunched[k] <= FirstUsable
  /\ rSettled = "notfound" =>
        \A i \in 1..Len(commands) : rEnv[i] \in {"exitNonZero", "launchFails"}
  /\ ((\A i \in 1..Len(commands) : rEnv[i] \in {"exitNonZero", "launchFails"})
        /\ rSettled # "idle" /\ rProbes = {}) => rSettled = "notfound"
  /\ rLaunched = [ k \in 1..Len(rLaunched) |-> k ]
  /\ Cardinality({ p \in rProbes : p.st = "running" }) <= 1

\* C12: a resolution always terminates, with a command or with
\* 'Python not found', even when a candidate's version check launches and
\* never exits: while it is unsettled, a step of it is still to come.
C12_ResolutionTerminates ==
  rSettled = "pending" => ENABLED NextResolver

\* C17: after any sequence of Enqueue, Remove and Clear the job ids of the
\* queue are pairwise distinct and the queue lists the jobs in the order they
\* were enqueued (ids are handed out in enqueue order: argument order within
\* a call, call order across calls; the jobs already there keep their
\* places); each new job is `pending` with empty caption and progress 0.
C17_DistinctIdsInEnqueueOrder ==
  [][ /\ \A i \in 1..Len(videos') : \A j \in 1..Len(videos') :
            i < j => videos'[i].id < videos'[j].id
      /\ \A j \in 1..Len(videos') :
            videos'[j].id \notin Ids(videos) =>
               /\ videos'[j].status = "pending"
               /\ videos'[j].caption = EmptyStr
               /\ videos'[j].progress = 0
               /\ \A i \in 1..Len(videos') : videos'[i].id \in Ids(videos) => i < j
      /\ \A files \in FileSelections :
            AddVideos(files) =>
               /\ Len(videos') = Len(videos) + Len(files)
               /\ \A k \in 1..Len(files) : videos'[Len(videos) + k].filepath = files[k]
    ]_vars

\* C17 witness: the first job enqueued was removed or cleared and a job
\* enqueued later is in the queue
C17_Witness ==
  /\ Len(videos) >= 1
  /\ videos[1].id > 1
  /\ videos[Len(videos)].id = nextId

CaptionOf(vs, id) == vs[CHOOSE i \in 1..Len(vs) : vs[i].id = id].caption

\* C21: the caption passed to a job's encoder is the caption the job had
\* when the run started: the snapshot takes the captions of that moment, no
\* caption edit during the run changes the snapshot, and each invocation of
\* the run carries the snapshot's caption of its job.
C21_CaptionOfRunStart ==
  [][ /\ (~isProcessing /\ isProcessing') =>
            \A k \in 1..Len(pending') : pending'[k].caption = CaptionOf(videos, pending'[k].id)
      /\ (isProcessing /\ isProcessing') =>
            /\ Len(pending') = Len(pending)
            /\ \A k \in 1..Len(pending) : pending'[k].caption = pending[k].caption
      /\ \A c \in calls' :
            /\ c.id = pending'[idx'].id
            /\ c.caption = pending'[idx'].caption
    ]_vars

\* C21 witness: the encoder of the snapshot's second job runs with the
\* caption of the run's start while the queue entry of that job, edited
\* during the run, holds the bulk text
C21_Witness ==
  /\ isProcessing
  /\ idx = 2
  /\ \E c \in EncodersAlive :
        /\ c.id = pending[2].id
        /\ c.caption = pending[2].caption
        /\ \E i \in 1..Len(videos) :
              /\ videos[i].id = c.id
              /\ videos[i].caption = bulkCaption
              /\ videos[i].caption # c.caption

====
